---- MODULE Spec2Model ----
(***************************************************************************)
(* A model of simple_collada_importer.py: the float-array source decoder,  *)
(* the triangle-block decoder, the mesh assembler and the import operator. *)
(*                                                                         *)
(* Python values are represented as follows.                               *)
(*   None / a value x      <<>> / <<x>>    (an optional)                   *)
(*   a list or a tuple     a sequence                                      *)
(*   a dict                a sequence of <<key, value>> pairs, in          *)
(*                         insertion order                                 *)
(*   an attribute's text   a string; the text of <float_array> and <p> is  *)
(*                         the sequence of its whitespace-separated tokens *)
(*   a "#id" reference     the pair <<first character, remainder>>         *)
(*   a float               the integer the token denotes                   *)
(***************************************************************************)
EXTENDS Integers, Sequences, FiniteSets, TLC

VARIABLES
    \* ---- parse_source_float_array, called on its own ----
    src_elem,       \* the <source> element: [text, accessor]
    parse_ret,      \* None before the call, then <<the returned list>>
    \* ---- IMPORT_OT_simple_collada_full.execute ----
    pc,             \* the position of the control flow
    raised,         \* "" or the name of the exception that left execute
    status,         \* "" or the operator's result, FINISHED / CANCELLED
    geoms_left,     \* geometries not yet iterated by the loop at line 387
    imported,       \* execute's counter of created objects
    linked,         \* the number of objects linked to the collection
    \* ---- build_mesh_from_geometry: the geometry's tables ----
    sources,        \* dict: source id -> list of tuples
    vertices_map,   \* dict: vertices id -> position source id
    tris_left,      \* <triangles> elements not yet iterated
    positions,      \* None or <<the position table>>
    faces, face_mat_ids, corner_uvs, corner_cols, corner_norms,
    mesh,           \* None or <<the mesh handed to the sink>>
    \* ---- build_mesh_from_geometry: the current <triangles> block ----
    blk,            \* the locals of the current iteration of the loop at 148
    i_tri,          \* the next triangle of the loop at line 216
    \* ---- history, read by the properties only ----
    hist

vars == <<src_elem, parse_ret, pc, raised, status, geoms_left, imported, linked,
          sources, vertices_map, tris_left, positions, faces, face_mat_ids,
          corner_uvs, corner_cols, corner_norms, mesh, blk, i_tri, hist>>

\* ------------------------------------------------------------------ bounds

MaxFloats == 4
MaxInputs == 3
MaxOffset == 2
MaxCount == 2
MaxStream == 12
MaxBlocks == 2
MaxGeoms == 2

\* ------------------------------------------------------- python primitives

None == <<>>
Some(x) == <<x>>
IsNone(o) == o = <<>>
Val(o) == o[1]

Min(a, b) == IF a < b THEN a ELSE b
Max(a, b) == IF a > b THEN a ELSE b

\* The tokens that float() accepts, with the number each denotes.
FloatOf == [t \in {"0", "1", "2", "-1", "1.0"} |->
              CASE t = "0" -> 0 [] t = "1" -> 1 [] t = "2" -> 2
                [] t = "-1" -> 0 - 1 [] t = "1.0" -> 1]

\* The tokens that int() accepts, with the integer each denotes.
IntOf == [t \in {"0", "1", "2", "3", "4", "5", "6", "7", "8", "-1"} |->
              CASE t = "0" -> 0 [] t = "1" -> 1 [] t = "2" -> 2 [] t = "3" -> 3
                [] t = "4" -> 4 [] t = "5" -> 5 [] t = "6" -> 6 [] t = "7" -> 7
                [] t = "8" -> 8 [] t = "-1" -> 0 - 1]

\* float(v) / int(v) raise ValueError on any other token.
IsFloat(t) == t \in DOMAIN FloatOf
IsInt(t) == t \in DOMAIN IntOf

\* str(i), for the attribute texts the documents are drawn from.
IntText(i) == CHOOSE t \in DOMAIN IntOf : IntOf[t] = i

\* d.get(k) of a dict d
RECURSIVE DictGet(_, _)
DictGet(d, k) ==
    IF d = <<>> THEN None
    ELSE IF Head(d)[1] = k THEN Some(Head(d)[2])
    ELSE DictGet(Tail(d), k)

\* d[k] = v: an existing key keeps its place, a new key goes last.
DictSet(d, k, v) ==
    IF \E i \in 1..Len(d) : d[i][1] = k
    THEN [i \in 1..Len(d) |-> IF d[i][1] = k THEN <<k, v>> ELSE d[i]]
    ELSE Append(d, <<k, v>>)

\* attrib.get("source", "")[1:]
DropFirst(ref) == ref[2]

\* ------------------------------------------- parse_source_float_array

DefaultStride == "3"

\* floats[i:i+stride] for i in range(0, len(floats), stride), stride > 0
RECURSIVE Chunks(_, _, _)
Chunks(floats, stride, i) ==
    IF i >= Len(floats) THEN <<>>
    ELSE LET chunk == SubSeq(floats, i + 1, Min(i + stride, Len(floats)))
         IN  IF Len(chunk) < stride THEN <<>>
             ELSE <<chunk>> \o Chunks(floats, stride, i + stride)

\* The accessor's stride text: "3" without an accessor or without the attribute.
StrideText(accessor) ==
    IF IsNone(accessor) THEN DefaultStride
    ELSE IF IsNone(Val(accessor)) THEN DefaultStride
    ELSE Val(Val(accessor))

\* [raised |-> exception or "", value |-> the returned list]
parse_source_float_array(elem) ==
    IF IsNone(elem.text) THEN [raised |-> "", value |-> <<>>]
    ELSE LET raw_vals == Val(elem.text)
         IN  IF \E i \in 1..Len(raw_vals) : ~IsFloat(raw_vals[i])
             THEN [raised |-> "", value |-> <<>>]
             ELSE LET floats == [i \in 1..Len(raw_vals) |-> FloatOf[raw_vals[i]]]
                      st == StrideText(elem.accessor)
                  IN  IF ~IsInt(st) THEN [raised |-> "ValueError", value |-> <<>>]
                      ELSE IF IntOf[st] = 0
                           THEN [raised |-> "ValueError", value |-> <<>>]
                      ELSE IF IntOf[st] < 0 THEN [raised |-> "", value |-> <<>>]
                      ELSE [raised |-> "", value |-> Chunks(floats, IntOf[st], 0)]

\* ------------------------------------- build_mesh_from_geometry: tables

\* sources[src_id] = parse_source_float_array(src, ns), for each <source> in
\* document order. [raised, value]: the first exception ends the loop.
RECURSIVE ParseSources(_, _)
ParseSources(elems, acc) ==
    IF elems = <<>> THEN [raised |-> "", value |-> acc]
    ELSE LET src == Head(elems)
         IN  IF IsNone(src.id) THEN ParseSources(Tail(elems), acc)
             ELSE LET r == parse_source_float_array(src)
                  IN  IF r.raised # "" THEN [raised |-> r.raised, value |-> acc]
                      ELSE ParseSources(Tail(elems),
                                        DictSet(acc, Val(src.id), r.value))

\* The inner loop over one <vertices> element's <input> children.
RECURSIVE VertexInputs(_, _, _)
VertexInputs(inps, v_id, acc) ==
    IF inps = <<>> THEN acc
    ELSE VertexInputs(Tail(inps), v_id,
             IF Head(inps).semantic = Some("POSITION")
             THEN DictSet(acc, v_id, DropFirst(Head(inps).source))
             ELSE acc)

\* vertices_map: vertices id -> position source id
RECURSIVE ParseVertices(_, _)
ParseVertices(elems, acc) ==
    IF elems = <<>> THEN acc
    ELSE LET verts == Head(elems)
         IN  IF IsNone(verts.id) THEN ParseVertices(Tail(elems), acc)
             ELSE ParseVertices(Tail(elems),
                                VertexInputs(verts.inputs, Val(verts.id), acc))

\* ------------------------------ build_mesh_from_geometry: a block's inputs

\* InputByOffset with setdefault: the first input at an offset stays.
RECURSIVE InputByOffset_KeepFirst(_, _)
InputByOffset_KeepFirst(inputs, acc) ==
    IF inputs = <<>> THEN acc
    ELSE LET inp == Head(inputs)
             off == IntOf[inp.offset]
         IN  InputByOffset_KeepFirst(Tail(inputs),
                 IF IsNone(DictGet(acc, off))
                 THEN DictSet(acc, off,
                              <<inp.semantic, DropFirst(inp.source), inp.set>>)
                 ELSE acc)

\* input_by_offset[off] = (sem, src, set_idx), for each <input> in document order
RECURSIVE InputByOffset(_, _)
InputByOffset(inputs, acc) ==
    IF inputs = <<>> THEN acc
    ELSE LET inp == Head(inputs)
         IN  InputByOffset(Tail(inputs),
                 DictSet(acc, IntOf[inp.offset],
                         <<inp.semantic, DropFirst(inp.source), inp.set>>))

\* max_offset = max(max_offset, off), from 0
RECURSIVE MaxOffsetOf(_, _)
MaxOffsetOf(inputs, acc) ==
    IF inputs = <<>> THEN acc
    ELSE MaxOffsetOf(Tail(inputs), Max(acc, IntOf[Head(inputs).offset]))

\* The first VERTEX entry of input_by_offset decides: the loop breaks there.
RECURSIVE ResolveVertex(_, _)
ResolveVertex(items, vmap) ==
    IF items = <<>> THEN [vertex_offset |-> None, pos_source_id |-> None]
    ELSE IF Head(items)[2][1] = Some("VERTEX")
         THEN [vertex_offset |-> Some(Head(items)[1]),
               pos_source_id |-> DictGet(vmap, Head(items)[2][2])]
         ELSE ResolveVertex(Tail(items), vmap)

NoOptional == [normal_offset |-> None, normal_source |-> None,
               color_offset |-> None, color_source |-> None,
               uv_offset |-> None, uv_source |-> None]

\* TakesTexcoord testing uv_offset where the code tests uv_source.
TakesTexcoord_ByOffset(acc, set_idx) ==
    IsNone(acc.uv_offset) \/ set_idx = Some("0")

\* The condition under which a TEXCOORD entry replaces the current choice.
TakesTexcoord(acc, set_idx) == IsNone(acc.uv_source) \/ set_idx = Some("0")

\* OptionalStep keeping the NORMAL and COLOR entries seen first.
OptionalStep_FirstSeen(acc, item, srcs) ==
    LET off == item[1]
        sem == item[2][1]
        src == item[2][2]
        set_idx == item[2][3]
    IN  IF sem = Some("NORMAL")
        THEN IF IsNone(acc.normal_offset)
             THEN [acc EXCEPT !.normal_offset = Some(off),
                              !.normal_source = DictGet(srcs, src)]
             ELSE acc
        ELSE IF sem = Some("COLOR")
        THEN IF IsNone(acc.color_offset)
             THEN [acc EXCEPT !.color_offset = Some(off),
                              !.color_source = DictGet(srcs, src)]
             ELSE acc
        ELSE IF sem = Some("TEXCOORD")
                /\ (IsNone(acc.uv_source) \/ set_idx = Some("0"))
        THEN [acc EXCEPT !.uv_offset = Some(off),
                         !.uv_source = DictGet(srcs, src)]
        ELSE acc

\* One iteration of the loop over input_by_offset.items() at line 197.
OptionalStep(acc, item, srcs) ==
    LET off == item[1]
        sem == item[2][1]
        src == item[2][2]
        set_idx == item[2][3]
    IN  IF sem = Some("NORMAL")
        THEN [acc EXCEPT !.normal_offset = Some(off),
                         !.normal_source = DictGet(srcs, src)]
        ELSE IF sem = Some("COLOR")
        THEN [acc EXCEPT !.color_offset = Some(off),
                         !.color_source = DictGet(srcs, src)]
        ELSE IF sem = Some("TEXCOORD") /\ TakesTexcoord(acc, set_idx)
        THEN [acc EXCEPT !.uv_offset = Some(off),
                         !.uv_source = DictGet(srcs, src)]
        ELSE acc

RECURSIVE ResolveOptional(_, _, _)
ResolveOptional(items, acc, srcs) ==
    IF items = <<>> THEN acc
    ELSE ResolveOptional(Tail(items), OptionalStep(acc, Head(items), srcs), srcs)

\* Python truth of an optional list: None and [] are false.
Truthy(o) == ~IsNone(o) /\ Val(o) # <<>>

\* A channel is read for every corner when its offset is set and its source is
\* a non-empty table.
Populated(off, src) == ~IsNone(off) /\ Truthy(src)

\* ---------------------- build_mesh_from_geometry: one <triangles> block

\* The locals of one iteration of the loop over <triangles>, before any is set.
EmptyBlk == [inputs |-> <<>>, count |-> 0, tri_mat_id |-> None,
             input_by_offset |-> <<>>, num_inputs |-> 0,
             vertex_offset |-> None, pos_source_id |-> None,
             normal_offset |-> None, normal_source |-> None,
             color_offset |-> None, color_source |-> None,
             uv_offset |-> None, uv_source |-> None,
             raw_idx |-> <<>>, warned |-> FALSE]

\* AssignPositions keeping the table of an earlier block.
AssignPositions_KeepFirst(old, got) == IF IsNone(old) THEN got ELSE old

\* positions = sources.get(pos_source_id), line 183
AssignPositions(old, got) == got

\* Lines 149-213 for the element tri, entered with the locals prev and the
\* position table pos. outcome: "continue" (the block is skipped), "return" (the
\* geometry returns None), "raise", or "decode" (the triangle loop follows);
\* blk: the locals, those not assigned keeping their value; positions: the
\* position table afterwards.
BlockHeader(tri, srcs, vmap, prev, pos) ==
    IF ~IsInt(tri.count)
    THEN [outcome |-> "raise", raised |-> "ValueError", blk |-> prev,
          positions |-> pos]
    ELSE
    LET b0 == [prev EXCEPT !.count = IntOf[tri.count], !.inputs = tri.inputs]
    IN
    IF IsNone(tri.p) \/ tri.p = Some(<<>>)
    THEN [outcome |-> "continue", raised |-> "", blk |-> b0, positions |-> pos]
    ELSE
    LET ibo == InputByOffset(tri.inputs, <<>>)
        v == ResolveVertex(ibo, vmap)
        b1 == [b0 EXCEPT !.tri_mat_id = tri.material,
                         !.input_by_offset = ibo,
                         !.num_inputs = MaxOffsetOf(tri.inputs, 0) + 1,
                         !.vertex_offset = v.vertex_offset,
                         !.pos_source_id = v.pos_source_id]
    IN
    IF IsNone(v.vertex_offset) \/ IsNone(v.pos_source_id)
    THEN [outcome |-> "return", raised |-> "", blk |-> b1, positions |-> pos]
    ELSE
    LET pos1 == AssignPositions(pos, DictGet(srcs, Val(v.pos_source_id)))
    IN
    IF ~Truthy(pos1)
    THEN [outcome |-> "return", raised |-> "", blk |-> b1, positions |-> pos1]
    ELSE
    LET o == ResolveOptional(ibo, NoOptional, srcs)
        b2 == [b1 EXCEPT !.normal_offset = o.normal_offset,
                         !.normal_source = o.normal_source,
                         !.color_offset = o.color_offset,
                         !.color_source = o.color_source,
                         !.uv_offset = o.uv_offset,
                         !.uv_source = o.uv_source]
        toks == Val(tri.p)
    IN
    IF \E i \in 1..Len(toks) : ~IsInt(toks[i])
    THEN [outcome |-> "raise", raised |-> "ValueError", blk |-> b2,
          positions |-> pos1]
    ELSE [outcome |-> "decode", raised |-> "",
          blk |-> [b2 EXCEPT !.raw_idx = [i \in 1..Len(toks) |-> IntOf[toks[i]]],
                             !.warned = Len(toks) < b2.count * 3 * b2.num_inputs],
          positions |-> pos1]

\* raw_idx[k] of the list raw_idx (k >= 0): [raised, value]
ReadIdx(raw_idx, k) ==
    IF k < Len(raw_idx) THEN [raised |-> "", value |-> raw_idx[k + 1]]
    ELSE [raised |-> "IndexError", value |-> 0]

NormalOf(src, ni) ==
    IF 0 <= ni /\ ni < Len(src) THEN src[ni + 1] ELSE <<0, 0, 1>>

ColorOf(src, ci) ==
    IF 0 <= ci /\ ci < Len(src)
    THEN LET c == src[ci + 1]
         IN  IF Len(c) = 4 THEN c
             ELSE IF Len(c) = 3 THEN c \o <<1>>
             ELSE <<1, 1, 1, 1>>
    ELSE <<1, 1, 1, 1>>

\* (uv[0], uv[1]) needs a tuple of two values at least
UvOf(src, ti) ==
    IF 0 <= ti /\ ti < Len(src)
    THEN LET uv == src[ti + 1]
         IN  IF Len(uv) >= 2 THEN [raised |-> "", value |-> <<uv[1], uv[2]>>]
             ELSE [raised |-> "IndexError", value |-> <<>>]
    ELSE [raised |-> "", value |-> <<0, 0>>]

\* One corner (lines 224-259): [raised, vi, norm, col, uv], the last three a list
\* of zero or one entry.
Corner(b, base, v) ==
    LET bb == base + v * b.num_inputs
        rv == ReadIdx(b.raw_idx, bb + Val(b.vertex_offset))
        hasN == Populated(b.normal_offset, b.normal_source)
        hasC == Populated(b.color_offset, b.color_source)
        hasU == Populated(b.uv_offset, b.uv_source)
        rn == IF hasN THEN ReadIdx(b.raw_idx, bb + Val(b.normal_offset))
              ELSE [raised |-> "", value |-> 0]
        rc == IF hasC THEN ReadIdx(b.raw_idx, bb + Val(b.color_offset))
              ELSE [raised |-> "", value |-> 0]
        ru == IF hasU THEN ReadIdx(b.raw_idx, bb + Val(b.uv_offset))
              ELSE [raised |-> "", value |-> 0]
        uv == IF hasU /\ ru.raised = "" THEN UvOf(Val(b.uv_source), ru.value)
              ELSE [raised |-> "", value |-> <<>>]
        exc == IF rv.raised # "" THEN rv.raised
               ELSE IF rn.raised # "" THEN rn.raised
               ELSE IF rc.raised # "" THEN rc.raised
               ELSE IF ru.raised # "" THEN ru.raised
               ELSE uv.raised
    IN  IF exc # ""
        THEN [raised |-> exc, vi |-> 0, norm |-> <<>>, col |-> <<>>, uv |-> <<>>]
        ELSE [raised |-> "", vi |-> rv.value,
              norm |-> IF hasN THEN <<NormalOf(Val(b.normal_source), rn.value)>>
                       ELSE <<>>,
              col |-> IF hasC THEN <<ColorOf(Val(b.color_source), rc.value)>>
                      ELSE <<>>,
              uv |-> IF hasU THEN <<uv.value>> ELSE <<>>]

\* IsDegenerate with len(set(tri_vertices)) < 2.
IsDegenerate_AllEqual(tri_vertices) ==
    Cardinality({tri_vertices[i] : i \in 1..Len(tri_vertices)}) < 2

\* len(set(tri_vertices)) < 3
IsDegenerate(tri_vertices) ==
    Cardinality({tri_vertices[i] : i \in 1..Len(tri_vertices)}) < 3

\* One iteration of the triangle loop (lines 217-269), before the degenerate test:
\* [raised, tri_vertices, tri_norm, tri_col, tri_uv]
DecodeTriangle(b, i) ==
    LET base == i * 3 * b.num_inputs
        c0 == Corner(b, base, 0)
        c1 == Corner(b, base, 1)
        c2 == Corner(b, base, 2)
        exc == IF c0.raised # "" THEN c0.raised
               ELSE IF c1.raised # "" THEN c1.raised
               ELSE c2.raised
    IN  [raised |-> exc,
         tri_vertices |-> <<c0.vi, c1.vi, c2.vi>>,
         tri_norm |-> c0.norm \o c1.norm \o c2.norm,
         tri_col |-> c0.col \o c1.col \o c2.col,
         tri_uv |-> c0.uv \o c1.uv \o c2.uv]

\* ------------------------------------------------- the mesh handed over

\* len(mesh.loops) of the mesh that from_pydata builds from triangles
NumLoops(fs) == 3 * Len(fs)

\* WritesAttribute without the comparison with len(mesh.loops).
WritesAttribute_NoLengthTest(arr, fs) == arr # <<>>

\* The condition under which a corner array is written to the mesh.
WritesAttribute(arr, fs) == arr # <<>> /\ Len(arr) = NumLoops(fs)

\* Lines 277-344: the mesh with the attributes that pass their length test.
BuildMesh(pos, fs, mats, uvs, cols, norms) ==
    [positions |-> pos, faces |-> fs, face_mat_ids |-> mats,
     uvs |-> IF WritesAttribute(uvs, fs) THEN Some(uvs) ELSE None,
     colors |-> IF WritesAttribute(cols, fs) THEN Some(cols) ELSE None,
     normals |-> IF WritesAttribute(norms, fs) THEN Some(norms) ELSE None]

\* -------------------------------------------------------- the documents

Inp(sem, id, off, set_idx) ==
    [semantic |-> Some(sem), source |-> <<"#", id>>, offset |-> IntText(off),
     set |-> set_idx]

SrcElem(id, text, accessor) ==
    [id |-> Some(id), text |-> Some(text), accessor |-> accessor]

Stride(t) == Some(Some(t))

VertsElem(id, src) ==
    [id |-> Some(id),
     inputs |-> <<[semantic |-> Some("POSITION"), source |-> <<"#", src>>]>>]

\* The <source> and <vertices> elements of a well-formed <mesh>.
GoodSources ==
    << SrcElem("P1", <<"0", "0", "0">>, None),
       SrcElem("P2", <<"1", "1.0", "1", "2", "2", "2">>, Stride("3")),
       SrcElem("N", <<"0", "1", "0">>, None),
       SrcElem("C", <<"1", "0", "0", "1">>, Stride("4")),
       SrcElem("UV", <<"0", "1">>, Stride("2")) >>

GoodVertices == << VertsElem("V1", "P1"), VertsElem("V2", "P2") >>

\* The first source with a token that is no number / with a stride of zero.
BadFloatSources ==
    [GoodSources EXCEPT ![1] = SrcElem("P1", <<"0", "x", "0">>, None)]
ZeroStrideSources ==
    [GoodSources EXCEPT ![3] = SrcElem("N", <<"0", "1", "0">>, Stride("0"))]

\* The <geometry> elements a document is made of.
Geometries ==
    { [mesh |-> TRUE, sources |-> GoodSources, vertices |-> GoodVertices],
      [mesh |-> TRUE, sources |-> BadFloatSources, vertices |-> GoodVertices],
      [mesh |-> TRUE, sources |-> ZeroStrideSources, vertices |-> GoodVertices],
      [mesh |-> FALSE, sources |-> <<>>, vertices |-> <<>>] }

\* The index streams: the first len tokens of 0 1 2 0 1 2 ... with every token
\* from position z on replaced by 0 (a degenerate triangle), a stream with a
\* token that is no integer, and no <p> at all.
Pattern(z, i) == IF i < z THEN IntText(i % 3) ELSE "0"

Streams ==
    { Some([i \in 1..len |-> Pattern(z, i - 1)]) :
        z \in {0, 3, 6}, len \in 0..MaxStream }
    \cup { Some(<<"0", "x", "2">>), None }

\* The input lists of the blocks of a geometry: a VERTEX input at offset 0, alone
\* or followed by one input at offset 1, or a NORMAL input alone.
Layouts ==
    { <<Inp("VERTEX", v, 0, None)>> : v \in {"V1", "V2", "V3"} }
    \cup { <<Inp("VERTEX", "V1", 0, None), Inp(sem[1], sem[2], 1, None)>> :
             sem \in { <<"NORMAL", "N">>, <<"COLOR", "C">>, <<"TEXCOORD", "UV">>,
                       <<"NORMAL", "N0">> } }
    \cup { <<Inp("NORMAL", "N", 0, None)>> }

\* A <triangles> element.
TriElem(count, material, inputs, p) ==
    [count |-> IntText(count), material |-> material, inputs |-> inputs, p |-> p]

\* The blocks of a geometry: the layouts above, 0..MaxCount triangles, any stream.
GeometryBlocks ==
    [layouts |-> [n \in 0..MaxInputs |-> {l \in Layouts : Len(l) = n}],
     counts |-> 0..MaxCount, streams |-> Streams,
     materials |-> {None, Some("M1")}]

\* The blocks of the geometries of a whole document: one triangle each, with a
\* mapped or an unmapped VERTEX input; the stream is complete, short,
\* degenerate, not numeric, or missing.
DocBlocks ==
    [layouts |-> [n \in 0..MaxInputs |->
                    IF n = 1
                    THEN { <<Inp("VERTEX", v, 0, None)>> : v \in {"V1", "V3"} }
                    ELSE {}],
     counts |-> {1},
     streams |-> { Some(<<"0", "1", "2">>), Some(<<"0", "1">>),
                   Some(<<"0", "0", "0">>), Some(<<"0", "x", "2">>), None },
     materials |-> {Some("M1")}]

\* Every input an <input> element may be, and every list of n of them.
AllInputs ==
    { Inp("VERTEX", "V1", off, None) : off \in 0..MaxOffset }
    \cup { Inp("NORMAL", id, off, None) : id \in {"N", "N0"}, off \in 0..MaxOffset }
    \cup { Inp("COLOR", "C", off, None) : off \in 0..MaxOffset }
    \cup { Inp("TEXCOORD", id, off, set_idx) :
             id \in {"UV", "N0"}, off \in 0..MaxOffset,
             set_idx \in {None, Some("0")} }

AllLayouts(n) == [1..n -> AllInputs]

\* Blocks with an empty triangle loop, to look at the inputs alone.
InputBlocks ==
    [layouts |-> [n \in 0..MaxInputs |-> AllLayouts(n)], counts |-> {0}, streams |-> {Some(<<"0">>)},
     materials |-> {None}]

\* Every <source> element parse_source_float_array is tried on.
FloatTexts ==
    UNION { [1..n -> {"0", "1.0", "x"}] : n \in 0..MaxFloats }

SourceElems ==
    { [id |-> Some("S"), text |-> t, accessor |-> a] :
        t \in {None} \cup { Some(x) : x \in FloatTexts },
        a \in {None, Some(None)}
              \cup { Stride(x) : x \in {"1", "2", "3", "0", "-1", "2.0"} } }

\* ------------------------------------------------------------ the state

NoHist == [n_geoms |-> 0,       \* the geometries of the document
           ret |-> "",          \* what the last build_mesh_from_geometry returned
           outcome |-> "",      \* how the header of the last block ended
           first_pos |-> None,  \* the table resolved by the geometry's first
                                \* block that passed VERTEX/POSITION resolution
           base |-> <<0, 0, 0, 0>>,   \* len of faces, corner_norms, corner_cols,
                                      \* corner_uvs when the block began
           before |-> <<0, 0, 0, 0, 0>>,  \* the same and len(face_mat_ids),
                                          \* before the last triangle
           last |-> None,       \* tri_vertices of the last triangle decoded
           dropped |-> 0]       \* degenerate triangles skipped in the block

Idle ==
    /\ raised = ""
    /\ src_elem = [id |-> None, text |-> None, accessor |-> None]
    /\ parse_ret = None
    /\ status = ""
    /\ imported = 0
    /\ linked = 0
    /\ sources = <<>>
    /\ vertices_map = <<>>
    /\ tris_left = 0
    /\ positions = None
    /\ faces = <<>>
    /\ face_mat_ids = <<>>
    /\ corner_uvs = <<>>
    /\ corner_cols = <<>>
    /\ corner_norms = <<>>
    /\ mesh = None
    /\ blk = EmptyBlk
    /\ i_tri = 0
    /\ hist = NoHist

geomVars == <<sources, vertices_map, tris_left, positions, faces, face_mat_ids,
              corner_uvs, corner_cols, corner_norms, mesh, blk, i_tri>>
accVars == <<faces, face_mat_ids, corner_uvs, corner_cols, corner_norms>>
execVars == <<geoms_left, imported, linked>>
parseVars == <<src_elem, parse_ret>>

\* ---------------------------------------------------------- the operations

\* execute, lines 359-386: the file is missing, is not XML, or holds n geometries.
Execute ==
    /\ pc = "execute"
    /\ \E file \in {"missing", "malformed", "xml"}, n \in 0..MaxGeoms :
         /\ file # "xml" => n = 0
         /\ IF file # "xml" \/ n = 0
            THEN /\ status' = "CANCELLED"
                 /\ pc' = "done"
                 /\ UNCHANGED <<geoms_left, imported>>
            ELSE /\ status' = status
                 /\ pc' = "geoms"
                 /\ geoms_left' = n
                 /\ imported' = 0
         /\ hist' = [hist EXCEPT !.n_geoms = n]
    /\ UNCHANGED <<parseVars, raised, linked, geomVars>>

\* The call of build_mesh_from_geometry on the next geometry, lines 113-145.
BeginGeometry(geometries) ==
    /\ pc = "geoms"
    /\ geoms_left > 0
    /\ geoms_left' = geoms_left - 1
    /\ \E g \in geometries, n \in 0..MaxBlocks :
         LET srcs == ParseSources(g.sources, <<>>)
         IN  /\ positions' = None
             /\ faces' = <<>>
             /\ face_mat_ids' = <<>>
             /\ corner_uvs' = <<>>
             /\ corner_cols' = <<>>
             /\ corner_norms' = <<>>
             /\ mesh' = None
             /\ blk' = EmptyBlk
             /\ i_tri' = 0
             /\ IF ~g.mesh
                THEN /\ pc' = "geoms"
                     /\ raised' = raised
                     /\ sources' = <<>>
                     /\ vertices_map' = <<>>
                     /\ tris_left' = 0
                     /\ hist' = [NoHist EXCEPT !.n_geoms = hist.n_geoms,
                                               !.ret = "None"]
                ELSE IF srcs.raised # ""
                THEN /\ pc' = "done"
                     /\ raised' = srcs.raised
                     /\ sources' = srcs.value
                     /\ vertices_map' = <<>>
                     /\ tris_left' = 0
                     /\ hist' = [NoHist EXCEPT !.n_geoms = hist.n_geoms]
                ELSE /\ pc' = "blocks"
                     /\ raised' = raised
                     /\ sources' = srcs.value
                     /\ vertices_map' = ParseVertices(g.vertices, <<>>)
                     /\ tris_left' = n
                     /\ hist' = [NoHist EXCEPT !.n_geoms = hist.n_geoms]
    /\ UNCHANGED <<parseVars, status, imported, linked>>

Lens == <<Len(faces), Len(corner_norms), Len(corner_cols), Len(corner_uvs)>>

\* The next <triangles> element, lines 149-213.
BeginBlock(blocks) ==
    /\ pc = "blocks"
    /\ tris_left > 0
    /\ tris_left' = tris_left - 1
    /\ \E n \in 0..MaxInputs, c \in blocks.counts, p \in blocks.streams,
          m \in blocks.materials :
       \E l \in blocks.layouts[n] :
       \E h \in {BlockHeader(TriElem(c, m, l, p), sources, vertices_map,
                              blk, positions)} :
         /\ blk' = h.blk
         /\ i_tri' = 0
         /\ raised' = h.raised
         /\ pc' = CASE h.outcome = "raise" -> "done"
                    [] h.outcome = "return" -> "geoms"
                    [] h.outcome = "continue" -> "blocks"
                    [] h.outcome = "decode" ->
                         IF h.blk.count > 0 THEN "tris" ELSE "blocks"
         /\ positions' = h.positions
         /\ hist' = [hist EXCEPT
               !.ret = IF h.outcome = "return" THEN "None" ELSE @,
               !.outcome = h.outcome,
               !.first_pos = IF IsNone(@) /\ h.outcome = "decode"
                             THEN h.positions ELSE @,
               !.base = Lens,
               !.before = Lens \o <<Len(face_mat_ids)>>,
               !.last = None,
               !.dropped = 0]
    /\ UNCHANGED <<parseVars, status, execVars, sources, vertices_map, accVars, mesh>>

\* One iteration of the triangle loop, lines 217-269.
Triangle ==
    /\ pc = "tris"
    /\ i_tri < blk.count
    /\ \E t \in {DecodeTriangle(blk, i_tri)} :
           IF t.raised # ""
           THEN /\ raised' = t.raised
                /\ pc' = "done"
                /\ UNCHANGED <<accVars, i_tri, hist>>
           ELSE /\ raised' = raised
                /\ i_tri' = i_tri + 1
                /\ pc' = IF i_tri + 1 < blk.count THEN "tris" ELSE "blocks"
                /\ hist' = [hist EXCEPT
                      !.before = Lens \o <<Len(face_mat_ids)>>,
                      !.last = Some(t.tri_vertices),
                      !.dropped = IF IsDegenerate(t.tri_vertices) THEN @ + 1 ELSE @]
                /\ IF IsDegenerate(t.tri_vertices)
                   THEN UNCHANGED accVars
                   ELSE /\ faces' = Append(faces, t.tri_vertices)
                        /\ face_mat_ids' = Append(face_mat_ids, blk.tri_mat_id)
                        /\ corner_norms' = corner_norms \o t.tri_norm
                        /\ corner_cols' = corner_cols \o t.tri_col
                        /\ corner_uvs' = corner_uvs \o t.tri_uv
    /\ UNCHANGED <<parseVars, status, execVars, sources, vertices_map, tris_left,
                   positions, mesh, blk>>

\* After the last block, lines 271-344, and the caller's count at lines 389-390.
CreateMesh ==
    /\ pc = "blocks"
    /\ tris_left = 0
    /\ pc' = "geoms"
    /\ IF ~Truthy(positions) \/ faces = <<>>
       THEN /\ hist' = [hist EXCEPT !.ret = "None"]
            /\ UNCHANGED <<mesh, linked, imported>>
       ELSE /\ mesh' = Some(BuildMesh(Val(positions), faces, face_mat_ids,
                                      corner_uvs, corner_cols, corner_norms))
            /\ linked' = linked + 1
            /\ imported' = imported + 1
            /\ hist' = [hist EXCEPT !.ret = "obj"]
    /\ UNCHANGED <<parseVars, raised, status, geoms_left, sources, vertices_map,
                   tris_left, positions, accVars, blk, i_tri>>

\* execute, lines 392-397
Finish ==
    /\ pc = "geoms"
    /\ geoms_left = 0
    /\ pc' = "done"
    /\ status' = IF imported = 0 THEN "CANCELLED" ELSE "FINISHED"
    /\ UNCHANGED <<parseVars, raised, execVars, geomVars, hist>>

\* parse_source_float_array called on src_elem
ParseSource ==
    /\ pc = "parse"
    /\ pc' = "done"
    /\ LET r == parse_source_float_array(src_elem)
       IN  /\ raised' = r.raised
           /\ parse_ret' = IF r.raised = "" THEN Some(r.value) ELSE None
    /\ UNCHANGED <<src_elem, status, execVars, geomVars, hist>>

\* ------------------------------------------------------ the specifications

\* The import of a document.
Init == Idle /\ pc = "execute" /\ geoms_left = 0

Next ==
    \/ Execute
    \/ BeginGeometry(Geometries)
    \/ BeginBlock(DocBlocks)
    \/ Triangle
    \/ CreateMesh
    \/ Finish

Spec == Init /\ [][Next]_vars

\* One call of build_mesh_from_geometry, over the richer blocks.
InitGeometry == Idle /\ pc = "geoms" /\ geoms_left = 1

NextGeometry ==
    \/ BeginGeometry(Geometries)
    \/ BeginBlock(GeometryBlocks)
    \/ Triangle
    \/ CreateMesh
    \/ Finish

SpecGeometry == InitGeometry /\ [][NextGeometry]_vars

\* The inputs of one block of a well-formed geometry, over every list of inputs.
InitInputs ==
    /\ pc = "blocks"
    /\ src_elem = [id |-> None, text |-> None, accessor |-> None]
    /\ parse_ret = None
    /\ raised = ""
    /\ status = ""
    /\ geoms_left = 0
    /\ imported = 0
    /\ linked = 0
    /\ sources = ParseSources(GoodSources, <<>>).value
    /\ vertices_map = ParseVertices(GoodVertices, <<>>)
    /\ tris_left = 1
    /\ positions = None
    /\ faces = <<>>
    /\ face_mat_ids = <<>>
    /\ corner_uvs = <<>>
    /\ corner_cols = <<>>
    /\ corner_norms = <<>>
    /\ mesh = None
    /\ blk = EmptyBlk
    /\ i_tri = 0
    /\ hist = NoHist

NextInputs == BeginBlock(InputBlocks)

SpecInputs == InitInputs /\ [][NextInputs]_vars

\* parse_source_float_array over every <source> element.
InitSource ==
    /\ pc = "parse"
    /\ src_elem \in SourceElems
    /\ parse_ret = None
    /\ raised = ""
    /\ status = ""
    /\ geoms_left = 0
    /\ imported = 0
    /\ linked = 0
    /\ sources = <<>>
    /\ vertices_map = <<>>
    /\ tris_left = 0
    /\ positions = None
    /\ faces = <<>>
    /\ face_mat_ids = <<>>
    /\ corner_uvs = <<>>
    /\ corner_cols = <<>>
    /\ corner_norms = <<>>
    /\ mesh = None
    /\ blk = EmptyBlk
    /\ i_tri = 0
    /\ hist = NoHist

NextSource == ParseSource

SpecSource == InitSource /\ [][NextSource]_vars

\* ------------------------------------------------------------ properties

\* The header of the current block reached the triangle loop.
Decoding == hist.outcome = "decode"

\* The triangle loop of the current block is over, normally or by an exception.
BlockEnded == Decoding /\ (i_tri >= blk.count \/ raised # "")

\* Faces the current block has emitted so far.
Kept == Len(faces) - hist.base[1]

PairwiseDistinct(t) == t[1] # t[2] /\ t[1] # t[3] /\ t[2] # t[3]

\* C1: a block whose index stream is shorter than count * 3 * num_inputs is
\* decoded with a warning only: no exception leaves the block or the geometry,
\* and the triangles that do not fit in the stream are dropped.
C1_ShortStreamOnlyWarns ==
    (Decoding /\ blk.warned) =>
        /\ raised = ""
        /\ i_tri * 3 * blk.num_inputs <= Len(blk.raw_idx)

\* C2: when a block's triangle loop is over, the faces it emitted plus the
\* degenerate triangles it dropped number
\* min(count, floor(stream_length / (3 * num_inputs))).
C2_FacesPlusDropped ==
    BlockEnded =>
        Kept + hist.dropped
            = Min(blk.count, Len(blk.raw_idx) \div (3 * blk.num_inputs))

\* C3: a corner-attribute array is on the mesh only if its length is 3 * number
\* of faces, and is left out otherwise; a mesh exists only after the last block
\* of the geometry, with positions and faces non-empty, and never for a geometry
\* that returned None.
AttributeGated(written, arr) ==
    /\ ~IsNone(written) => (Val(written) = arr /\ Len(arr) = 3 * Len(faces))
    /\ Len(arr) # 3 * Len(faces) => IsNone(written)

C3_AttributesAligned ==
    /\ ~IsNone(mesh) =>
         /\ AttributeGated(Val(mesh).uvs, corner_uvs)
         /\ AttributeGated(Val(mesh).colors, corner_cols)
         /\ AttributeGated(Val(mesh).normals, corner_norms)
         /\ Val(mesh).faces = faces /\ faces # <<>>
         /\ Val(mesh).positions # <<>>
         /\ tris_left = 0
         /\ pc \in {"geoms", "done"}
         /\ hist.ret = "obj"
    /\ (pc \in {"blocks", "tris"} \/ hist.ret # "obj") => IsNone(mesh)

\* Two blocks of which one only had normals: the array is left out.
C3_Witness ==
    /\ ~IsNone(mesh)
    /\ corner_norms # <<>>
    /\ Len(corner_norms) # 3 * Len(faces)
    /\ IsNone(Val(mesh).normals)

\* C4: a geometry that fails is skipped and the later ones are still processed;
\* execute ends FINISHED exactly when an object was created, CANCELLED otherwise.
C4_FailureSkipsOneGeometry ==
    pc = "done" =>
        /\ raised = ""
        /\ geoms_left = 0
        /\ status \in {"FINISHED", "CANCELLED"}
        /\ status = "FINISHED" <=> linked >= 1

\* C5: after every triangle of every block: the triangle was dropped exactly
\* when its three VERTEX indices are not pairwise distinct, and then no
\* accumulator grew; faces and face_mat_ids have the same length; every channel
\* populated in the block holds 3 entries per face kept from the block.
C5_DroppedTriangleAddsNothing ==
    /\ Len(faces) = Len(face_mat_ids)
    /\ (Decoding /\ ~IsNone(hist.last)) =>
         LET now == Lens \o <<Len(face_mat_ids)>>
             t == Val(hist.last)
         IN  /\ ~PairwiseDistinct(t) <=> now = hist.before
             /\ PairwiseDistinct(t) =>
                  (now[1] = hist.before[1] + 1 /\ faces[Len(faces)] = t)
             /\ Kept + hist.dropped = i_tri
             /\ Populated(blk.normal_offset, blk.normal_source) =>
                  Len(corner_norms) - hist.base[2] = 3 * Kept
             /\ Populated(blk.color_offset, blk.color_source) =>
                  Len(corner_cols) - hist.base[3] = 3 * Kept
             /\ Populated(blk.uv_offset, blk.uv_source) =>
                  Len(corner_uvs) - hist.base[4] = 3 * Kept

\* A block with normals that kept one triangle and dropped the next.
C5_Witness ==
    /\ Decoding
    /\ ~IsNone(hist.last)
    /\ ~PairwiseDistinct(Val(hist.last))
    /\ Populated(blk.normal_offset, blk.normal_source)
    /\ Kept = 1
    /\ hist.dropped = 1
    /\ Len(corner_norms) - hist.base[2] = 3

\* C8 as stated: the mesh gets the position table resolved by the first block
\* that was decoded.
C8_FirstBlockPositions ==
    ~IsNone(mesh) => Some(Val(mesh).positions) = hist.first_pos

\* C8, amended: the mesh gets the position table of the VERTEX input resolved
\* last, that of the last block that was not skipped.
C8_LastBlockPositions ==
    ~IsNone(mesh) =>
        /\ ~IsNone(blk.pos_source_id)
        /\ Some(Val(mesh).positions) = DictGet(sources, Val(blk.pos_source_id))

\* Two decoded blocks with different position sources, and a mesh.
C8_Witness ==
    /\ ~IsNone(mesh)
    /\ ~IsNone(hist.first_pos)
    /\ hist.first_pos # Some(Val(mesh).positions)

\* The inputs of the current block, in document order.
OffsetAt(i) == IntOf[blk.inputs[i].offset]
SourceAt(i) == DictGet(sources, DropFirst(blk.inputs[i].source))
WithSemantic(sem) == {i \in 1..Len(blk.inputs) : blk.inputs[i].semantic = Some(sem)}
DistinctOffsets ==
    \A i, j \in 1..Len(blk.inputs) : i # j => OffsetAt(i) # OffsetAt(j)
DistinctOffsetsIn(S) == \A i, j \in S : i # j => OffsetAt(i) # OffsetAt(j)
First(S) == CHOOSE i \in S : \A j \in S : i <= j
Last(S) == CHOOSE i \in S : \A j \in S : j <= i

\* The header of the current block got as far as input_by_offset.
InputsRead == hist.outcome \in {"return", "raise", "decode"}

FirstWins(sem, off, src) ==
    LET S == WithSemantic(sem)
    IN  (Decoding /\ Cardinality(S) >= 2 /\ DistinctOffsetsIn(S)) =>
            (off = Some(OffsetAt(First(S))) /\ src = SourceAt(First(S)))

LastWins(sem, off, src) ==
    LET S == WithSemantic(sem)
    IN  (Decoding /\ S # {} /\ DistinctOffsets) =>
            (off = Some(OffsetAt(Last(S))) /\ src = SourceAt(Last(S)))

\* C7 as stated: of several NORMAL (or COLOR) inputs at different offsets, the
\* first in document order gives the channel's offset and source.
C7_FirstNormalWins ==
    /\ FirstWins("NORMAL", blk.normal_offset, blk.normal_source)
    /\ FirstWins("COLOR", blk.color_offset, blk.color_source)

\* C7, amended: when no two inputs of the block share an offset, the last NORMAL
\* (or COLOR) input in document order gives the channel's offset and source.
C7_LastNormalWins ==
    /\ LastWins("NORMAL", blk.normal_offset, blk.normal_source)
    /\ LastWins("COLOR", blk.color_offset, blk.color_source)

\* Two NORMAL inputs with different sources, the second one used.
C7_Witness ==
    LET S == WithSemantic("NORMAL")
    IN  /\ Decoding
        /\ DistinctOffsets
        /\ Cardinality(S) = 2
        /\ ~IsNone(SourceAt(First(S)))
        /\ IsNone(SourceAt(Last(S)))
        /\ blk.normal_offset = Some(OffsetAt(Last(S)))
        /\ IsNone(blk.normal_source)

HasSet0(i) == blk.inputs[i].set = Some("0")
Known(i) == ~IsNone(SourceAt(i))

ChosenTexcoord(T) ==
    LET Z == {i \in T : HasSet0(i)}
        after == {i \in T : Known(i) /\ (Z # {} => i > Last(Z))}
    IN  IF Z # {} /\ Known(Last(Z)) THEN Last(Z)
        ELSE IF after # {} THEN First(after)
        ELSE Last(T)

VertexShadowed ==
    LET V == WithSemantic("VERTEX")
    IN  /\ Cardinality(V) = 1
        /\ \E j \in 1..Len(blk.inputs) :
             j > First(V) /\ OffsetAt(j) = OffsetAt(First(V))

\* C10: input_by_offset holds, for each offset, the last input in document
\* order with that offset; a block whose only VERTEX input is followed by an
\* input of another semantic at its offset has no VERTEX entry, and the geometry
\* returns None.
C10_LaterInputShadowsOffset ==
    InputsRead =>
      /\ Len(blk.input_by_offset) = Cardinality({OffsetAt(i) : i \in 1..Len(blk.inputs)})
      /\ \A i \in 1..Len(blk.inputs) :
           LET same == {j \in 1..Len(blk.inputs) : OffsetAt(j) = OffsetAt(i)}
               inp == blk.inputs[Last(same)]
           IN  DictGet(blk.input_by_offset, OffsetAt(i))
                   = Some(<<inp.semantic, DropFirst(inp.source), inp.set>>)
      /\ VertexShadowed =>
           /\ IsNone(blk.vertex_offset)
           /\ hist.outcome = "return"
           /\ hist.ret = "None"
           /\ IsNone(mesh)
           /\ linked = 0

\* A mapped VERTEX input, shadowed: the geometry has returned None.
C10_Witness ==
    /\ InputsRead
    /\ VertexShadowed
    /\ blk.inputs[First(WithSemantic("VERTEX"))].source = <<"#", "V1">>
    /\ hist.ret = "None"
    /\ pc = "geoms"

\* C6: parse_source_float_array never raises and returns a list of tuples, the
\* empty list when the text is absent, when a token is no number, or when there
\* are fewer values than the stride.
C6_ParseNeverRaises ==
    pc = "done" =>
      /\ raised = ""
      /\ ~IsNone(parse_ret)
      /\ LET st == StrideText(src_elem.accessor)
             toks == IF IsNone(src_elem.text) THEN <<>> ELSE Val(src_elem.text)
         IN  (\/ IsNone(src_elem.text)
              \/ \E i \in 1..Len(toks) : ~IsFloat(toks[i])
              \/ (IsInt(st) /\ Len(toks) < IntOf[st]))
             => Val(parse_ret) = <<>>

====
